---------------------------- MODULE Spec2Model ----------------------------
(***************************************************************************)
(* Model of src/building.py: the campus energy pipeline                    *)
(*   load_all_data -> daily_data / weekly_data / building_summary ->       *)
(*   BuildingManager report -> make_dashboard -> save_results.             *)
(*                                                                         *)
(* File and column names are sequences of one-character strings, so that   *)
(* str.endswith, str.replace, str.lower and the `in` substring test are    *)
(* computed as Python computes them.  CSV cells are strings.  A parsed     *)
(* cell is [null |-> TRUE] (NaN / NaT) or [null |-> FALSE, v |-> value].   *)
(* A timestamp value is the number of hours since 2024-01-01 00:00, which  *)
(* is a Monday.  An energy value is a float64, held exactly as a count of  *)
(* units of 2^-51 kWh in two limbs, and added with float64 rounding.       *)
(***************************************************************************)
EXTENDS Integers, Sequences, FiniteSets, TLC

VARIABLES
    listing,      \* os.listdir(DATA_FOLDER): the file names, in listing order
    content,      \* file name -> the CSV text of the file: [header, rows]
    pc,           \* position of main()
    files,        \* load_all_data: the names that end with ".csv"
    idx,          \* load_all_data: position of the for loop in files
    all_dfs,      \* load_all_data: the per-file frames appended so far
    final_df,     \* the Combined Series returned by load_all_data, or None
    daily,        \* daily_data(df)
    weekly,       \* weekly_data(df)
    summary,      \* building_summary(df)
    buildings,    \* BuildingManager.buildings: name -> list of readings
    report,       \* BuildingManager.report()
    outputs,      \* names of the files written under OUTPUT_FOLDER
    summary_txt,  \* what save_results wrote to summary.txt
    console       \* the lines printed

vars == <<listing, content, pc, files, idx, all_dfs, final_df, daily, weekly,
          summary, buildings, report, outputs, summary_txt, console>>

\* Python's None, and a value that is not None.
None == [none |-> TRUE]
Frame(rows) == [none |-> FALSE, rows |-> rows]

\* The longest directory listing explored.
MaxFiles == 2

-----------------------------------------------------------------------------
(* Strings as sequences of characters.                                     *)

\* ord() of the characters that occur in the modelled names.
CharCode(c) ==
    CASE c = "." -> 46
      [] c = "D" -> 68 [] c = "E" -> 69 [] c = "I" -> 73 [] c = "K" -> 75
      [] c = "L" -> 76 [] c = "N" -> 78 [] c = "T" -> 84 [] c = "W" -> 87
      [] c = "a" -> 97 [] c = "b" -> 98 [] c = "c" -> 99 [] c = "d" -> 100
      [] c = "e" -> 101 [] c = "g" -> 103 [] c = "h" -> 104 [] c = "i" -> 105
      [] c = "k" -> 107 [] c = "l" -> 108 [] c = "m" -> 109 [] c = "n" -> 110
      [] c = "o" -> 111 [] c = "r" -> 114 [] c = "s" -> 115 [] c = "t" -> 116
      [] c = "v" -> 118 [] c = "w" -> 119 [] c = "x" -> 120 [] c = "y" -> 121

\* str.lower() on one character.
LowerChar(c) ==
    CASE c = "D" -> "d" [] c = "E" -> "e" [] c = "I" -> "i" [] c = "K" -> "k"
      [] c = "L" -> "l" [] c = "N" -> "n" [] c = "T" -> "t" [] c = "W" -> "w"
      [] OTHER -> c

\* c.lower()
Lower(s) == [i \in 1..Len(s) |-> LowerChar(s[i])]

\* f.endswith(suf)
EndsWith(s, suf) ==
    /\ Len(s) >= Len(suf)
    /\ SubSeq(s, Len(s) - Len(suf) + 1, Len(s)) = suf

\* sub in s
Contains(s, sub) ==
    \E i \in 1..(Len(s) - Len(sub) + 1) : SubSeq(s, i, i + Len(sub) - 1) = sub

\* s.replace(old, new): every non-overlapping occurrence, left to right.
RECURSIVE Replace(_, _, _)
Replace(s, old, new) ==
    IF Len(s) < Len(old) THEN s
    ELSE IF SubSeq(s, 1, Len(old)) = old
         THEN new \o Replace(SubSeq(s, Len(old) + 1, Len(s)), old, new)
         ELSE <<Head(s)>> \o Replace(Tail(s), old, new)

\* Python's < on str: lexicographic by code point.
RECURSIVE StrLess(_, _)
StrLess(a, b) ==
    IF b = <<>> THEN FALSE
    ELSE IF a = <<>> THEN TRUE
    ELSE IF Head(a) = Head(b) THEN StrLess(Tail(a), Tail(b))
    ELSE CharCode(Head(a)) < CharCode(Head(b))

CsvExt == <<".", "c", "s", "v">>
TokTime == <<"t", "i", "m", "e">>
TokDate == <<"d", "a", "t", "e">>
TokKwh == <<"k", "w", "h">>
TokEnergy == <<"e", "n", "e", "r", "g", "y">>

-----------------------------------------------------------------------------
(* The inputs: file names, column names, cells.                            *)

NameA == <<"a", ".", "c", "s", "v">>
NameB == <<"b", ".", "c", "s", "v">>
NameACsvCsv == <<"a", ".", "c", "s", "v", ".", "c", "s", "v">>
NameATxt == <<"a", ".", "t", "x", "t">>
NameBCsvX == <<"b", ".", "c", "s", "v", "x">>
AllNames == {NameA, NameB, NameACsvCsv, NameATxt, NameBCsvX}

ColTime == <<"T", "i", "m", "e">>
ColDate == <<"D", "a", "t", "e">>
ColKwh == <<"k", "W", "h">>
ColEnergy == <<"E", "n", "e", "r", "g", "y">>
ColNote == <<"N", "o", "t", "e">>
ColId == <<"I", "d">>
ColLoad == <<"L", "o", "a", "d">>

\* Two readings out of order, two days apart.
FileTwoDays ==
    [header |-> <<ColTime, ColKwh>>,
     rows |-> << <<"2024-01-03 06:00", "5">>, <<"2024-01-01 00:00", "10">> >>]
\* One reading, between the two readings of FileTwoDays, with the same total.
FileNoon ==
    [header |-> <<ColTime, ColKwh>>,
     rows |-> << <<"2024-01-01 12:00", "15">> >>]
\* A third column with an empty cell in the second row and "n/a" in the
\* fourth; readings two weeks apart.
FileNote ==
    [header |-> <<ColDate, ColEnergy, ColNote>>,
     rows |-> << <<"2024-01-01 00:00", "10", "ok">>,
                 <<"2024-01-03 06:00", "20", "">>,
                 <<"2024-01-16 00:00", "5", "ok">>,
                 <<"2024-01-01 12:00", "7", "n/a">> >>]
\* A bad timestamp, a bad energy value, and one good row.
FileDirty ==
    [header |-> <<ColTime, ColKwh>>,
     rows |-> << <<"not a date", "10">>,
                 <<"2024-01-01 12:00", "abc">>,
                 <<"2024-01-03 06:00", "20">> >>]
\* No row survives.
FileAllBad ==
    [header |-> <<ColTime, ColKwh>>,
     rows |-> << <<"not a date", "10">> >>]
\* Energy column first; two readings with the same timestamp.
FileSwapped ==
    [header |-> <<ColKwh, ColTime>>,
     rows |-> << <<"10", "2024-01-01 12:00">>, <<"5", "2024-01-01 12:00">> >>]
\* Readings that are not whole numbers.
FileFractions ==
    [header |-> <<ColTime, ColKwh>>,
     rows |-> << <<"2024-01-01 00:00", "3.2">>,
                 <<"2024-01-01 12:00", "6.4">>,
                 <<"2024-01-03 06:00", "9.6">> >>]
\* No column named after time or date.
FileNoTime ==
    [header |-> <<ColId, ColKwh>>,
     rows |-> << <<"7", "10">> >>]
\* No column named after kwh or energy.
FileNoEnergy ==
    [header |-> <<ColTime, ColLoad>>,
     rows |-> << <<"2024-01-01 00:00", "10">> >>]

FileMenu == {FileTwoDays, FileNoon, FileNote, FileDirty, FileAllBad,
             FileSwapped, FileFractions, FileNoTime, FileNoEnergy}

\* The sequences of distinct names of length at most n.
RECURSIVE Listings(_)
Listings(n) ==
    IF n = 0 THEN {<<>>}
    ELSE LET shorter == Listings(n - 1)
         IN shorter \cup
            UNION {{Append(l, f) : f \in AllNames \ {l[i] : i \in 1..Len(l)}} :
                   l \in {s \in shorter : Len(s) = n - 1}}

-----------------------------------------------------------------------------
(* float64 values and their addition.                                      *)
(*                                                                         *)
(* [hi |-> h, lo |-> l] with 0 <= l < Limb stands for (h * Limb + l) units *)
(* of 2^-51 kWh.  Every float64 that is a multiple of 2^-51 and below 128  *)
(* in magnitude is such a value: that covers the energy cells of FileMenu  *)
(* and every sum and difference the program forms from them.               *)

Limb == 2^27

\* The value h * Limb + l in canonical form.
Norm(h, l) == [hi |-> h + (l \div Limb), lo |-> l % Limb]

\* The float64 of a whole number of kWh: n * 2^51 units.
FromInt(n) == [hi |-> n * 2^24, lo |-> 0]

Zero == FromInt(0)

\* a + b, a - b and -a as real numbers.
ExactAdd(a, b) == Norm(a.hi + b.hi, a.lo + b.lo)
Negate(a) == Norm(0 - a.hi, 0 - a.lo)
ExactSub(a, b) == ExactAdd(a, Negate(b))

\* a < b, a <= b, |a|
FLess(a, b) == a.hi < b.hi \/ (a.hi = b.hi /\ a.lo < b.lo)
FLeq(a, b) == a = b \/ FLess(a, b)
FAbs(a) == IF a.hi < 0 THEN Negate(a) ELSE a

\* The spacing of the float64 values around m >= 0, in units: a float64 has
\* 53 significant bits, so 1 below 2^53 units (4 kWh), 2 below 2^54, ...
Ulp(m) ==
    IF m.hi < 2^26 THEN 1
    ELSE IF m.hi < 2^27 THEN 2
    ELSE IF m.hi < 2^28 THEN 4
    ELSE IF m.hi < 2^29 THEN 8
    ELSE IF m.hi < 2^30 THEN 16
    ELSE 32

\* A real number rounded to the nearest float64, ties to the even mantissa.
RoundToDouble(a) ==
    LET m == FAbs(a)
        u == Ulp(m)
        r == m.lo % u
        down == Norm(m.hi, m.lo - r)
        up == Norm(m.hi, m.lo - r + u)
        near == IF r = 0 THEN m
                ELSE IF 2 * r < u THEN down
                ELSE IF 2 * r > u THEN up
                ELSE IF (m.lo \div u) % 2 = 0 THEN down ELSE up
    IN IF a.hi < 0 THEN Negate(near) ELSE near

\* The float64 operations a + b and a - b.
FAdd(a, b) == RoundToDouble(ExactAdd(a, b))
FSub(a, b) == RoundToDouble(ExactSub(a, b))

\* The grouped sum of pandas (group_sum): Kahan summation, in the order of
\* the values.  [sum, c] after the values vs.
RECURSIVE KahanState(_)
KahanState(vs) ==
    IF vs = <<>> THEN [sum |-> Zero, c |-> Zero]
    ELSE LET before == KahanState(SubSeq(vs, 1, Len(vs) - 1))
             y == FSub(vs[Len(vs)], before.c)
             t == FAdd(before.sum, y)
         IN [sum |-> t, c |-> FSub(FSub(t, before.sum), y)]

KahanSum(vs) == KahanState(vs).sum

\* Plain left-to-right addition from 0: the built-in sum of CPython up to
\* 3.11, and numpy's sum of a short array.
RECURSIVE NaiveSum(_)
NaiveSum(vs) ==
    IF vs = <<>> THEN Zero
    ELSE FAdd(NaiveSum(SubSeq(vs, 1, Len(vs) - 1)), vs[Len(vs)])

\* The built-in sum of CPython 3.12 and later on floats: Neumaier summation.
\* [f, c] after the values vs, vs not empty.
RECURSIVE NeumaierState(_)
NeumaierState(vs) ==
    IF Len(vs) = 1 THEN [f |-> vs[1], c |-> Zero]
    ELSE LET before == NeumaierState(SubSeq(vs, 1, Len(vs) - 1))
             x == vs[Len(vs)]
             t == FAdd(before.f, x)
             d == IF FLeq(FAbs(x), FAbs(before.f))
                  THEN FAdd(FSub(before.f, t), x)
                  ELSE FAdd(FSub(x, t), before.f)
         IN [f |-> t, c |-> FAdd(before.c, d)]

NeumaierSum(vs) ==
    IF vs = <<>> THEN Zero
    ELSE LET end == NeumaierState(vs)
         IN IF end.c # Zero THEN FAdd(end.f, end.c) ELSE end.f

-----------------------------------------------------------------------------
(* pandas on one file.                                                     *)

NaN == [null |-> TRUE]
Val(v) == [null |-> FALSE, v |-> v]

\* The strings pd.read_csv reads as a missing value: the default na_values
\* of pandas (keep_default_na=True, no na_values argument at line 26).
NaStrings == {"", "#N/A", "#N/A N/A", "#NA", "-1.#IND", "-1.#QNAN", "-NaN",
              "-nan", "1.#IND", "1.#QNAN", "<NA>", "N/A", "NA", "NULL", "NaN",
              "None", "n/a", "nan", "null"}

\* pd.read_csv(path): the cells, a missing value where the text says so.
ReadCsv(file) ==
    [i \in 1..Len(file.rows) |->
        [j \in 1..Len(file.header) |->
            IF file.rows[i][j] \in NaStrings THEN NaN ELSE Val(file.rows[i][j])]]

\* [c.lower() for c in df.columns]
LowerColumns(header) == [j \in 1..Len(header) |-> Lower(header[j])]

\* [j for c in df.columns if "time" in c or "date" in c], as positions.
TimeCols(cols) ==
    SelectSeq([j \in 1..Len(cols) |-> j],
              LAMBDA j : Contains(cols[j], TokTime) \/ Contains(cols[j], TokDate))

\* [j for c in df.columns if "kwh" in c or "energy" in c], as positions.
EnergyCols(cols) ==
    SelectSeq([j \in 1..Len(cols) |-> j],
              LAMBDA j : Contains(cols[j], TokKwh) \/ Contains(cols[j], TokEnergy))

\* Either list is empty: [0] raises IndexError.
MissingColumn(file) ==
    \/ TimeCols(LowerColumns(file.header)) = <<>>
    \/ EnergyCols(LowerColumns(file.header)) = <<>>

\* pd.to_datetime(cell, errors="coerce"): hours since 2024-01-01 00:00.
ToDatetime(cell) ==
    IF cell.null THEN NaN
    ELSE CASE cell.v = "2024-01-01 00:00" -> Val(0)
           [] cell.v = "2024-01-01 12:00" -> Val(12)
           [] cell.v = "2024-01-03 06:00" -> Val(54)
           [] cell.v = "2024-01-16 00:00" -> Val(360)
           [] OTHER -> NaN

\* pd.to_numeric(cell, errors="coerce"): the float64 nearest to the number
\* the text writes.  3.2, 6.4 and 9.6 are 32 times the float64 values of
\* 0.1, 0.2 and 0.3.
ToNumeric(cell) ==
    IF cell.null THEN NaN
    ELSE CASE cell.v = "5" -> Val(FromInt(5))
           [] cell.v = "7" -> Val(FromInt(7))
           [] cell.v = "10" -> Val(FromInt(10))
           [] cell.v = "15" -> Val(FromInt(15))
           [] cell.v = "20" -> Val(FromInt(20))
           [] cell.v = "3.2" -> Val([hi |-> 53687091, lo |-> 26843546])
           [] cell.v = "6.4" -> Val([hi |-> 107374182, lo |-> 53687092])
           [] cell.v = "9.6" -> Val([hi |-> 161061273, lo |-> 80530636])
           [] OTHER -> NaN

\* Lines 35-36: the two columns coerced, the others left as read.  (In every
\* header of FileMenu the time column and the energy column are different.)
Coerce(raw, tcol, ecol) ==
    [i \in 1..Len(raw) |->
        [j \in 1..Len(raw[i]) |->
            IF j = tcol THEN ToDatetime(raw[i][j])
            ELSE IF j = ecol THEN ToNumeric(raw[i][j])
            ELSE raw[i][j]]]

\* The bug of looking at the first column only.
DropNaFirstColumn(rows) ==
    SelectSeq(rows, LAMBDA r : ~r[1].null)

\* The bug of looking at the first two columns only.
DropNaTwoColumns(rows) ==
    SelectSeq(rows, LAMBDA r : \A j \in 1..Len(r) : j <= 2 => ~r[j].null)

\* df.dropna(): a row goes when any of its cells is missing.
DropNa(rows) ==
    SelectSeq(rows, LAMBDA r : \A j \in 1..Len(r) : ~r[j].null)

\* building_name = file.replace(".csv", "")
BuildingName(name) == Replace(name, CsvExt, <<>>)

\* Lines 40-45: rename, tag with the building, keep the three columns.
Select(rows, tcol, ecol, bname) ==
    [i \in 1..Len(rows) |->
        [timestamp |-> rows[i][tcol], kwh |-> rows[i][ecol], building |-> bname]]

IsSorted(rows) ==
    \A i \in 1..(Len(rows) - 1) : rows[i].timestamp.v <= rows[i + 1].timestamp.v

\* The bug of leaving the rows in file order.
SortValuesSkipped(rows) == {rows}

\* df.sort_values("timestamp"): the default sort is not stable, so rows with
\* equal timestamps come out in any order.
SortValues(rows) ==
    {s \in {[i \in 1..Len(rows) |-> rows[p[i]]] : p \in Permutations(1..Len(rows))} :
        IsSorted(s)}

\* Lines 25-46 for one file whose columns were found.
LoadedFrames(name, file) ==
    LET cols == LowerColumns(file.header)
        tcol == TimeCols(cols)[1]
        ecol == EnergyCols(cols)[1]
    IN SortValues(Select(DropNa(Coerce(ReadCsv(file), tcol, ecol)),
                         tcol, ecol, BuildingName(name)))

\* The bug of testing ".csv" in f instead of f.endswith(".csv").
CsvFilesContaining(names) == SelectSeq(names, LAMBDA f : Contains(f, CsvExt))

\* [f for f in os.listdir(DATA_FOLDER) if f.endswith(".csv")]
CsvFiles(names) == SelectSeq(names, LAMBDA f : EndsWith(f, CsvExt))

RECURSIVE Concat(_)
\* pd.concat(all_dfs, ignore_index=True)
Concat(dfs) == IF dfs = <<>> THEN <<>> ELSE Head(dfs) \o Concat(Tail(dfs))

-----------------------------------------------------------------------------
(* The aggregator: lines 62-75.                                            *)

HoursPerDay == 24
DaysPerWeek == 7

\* The calendar day of a timestamp, counted from 2024-01-01.
DayLabel(t) == t \div HoursPerDay

\* The label of the "W" (week ending Sunday) bucket of a timestamp: the day
\* number of the Sunday that closes its Monday-to-Sunday week.
WeekLabel(t) == DaysPerWeek * (DayLabel(t) \div DaysPerWeek) + (DaysPerWeek - 1)

BuildingSet(rows) == {rows[i].building : i \in 1..Len(rows)}

\* groupby("building") visits its groups in sorted key order.
RECURSIVE SortNames(_)
SortNames(S) ==
    IF S = {} THEN <<>>
    ELSE LET m == CHOOSE x \in S : \A y \in S \ {x} : StrLess(x, y)
         IN <<m>> \o SortNames(S \ {m})

\* The positions I in the order in which resample takes the rows of a
\* group: by timestamp, its sort being stable, so rows with the same
\* timestamp stay in the order of the frame.
RECURSIVE TimeOrder(_, _)
TimeOrder(rows, I) ==
    IF I = {} THEN <<>>
    ELSE LET i == CHOOSE x \in I : \A y \in I \ {x} :
                     \/ rows[x].timestamp.v < rows[y].timestamp.v
                     \/ /\ rows[x].timestamp.v = rows[y].timestamp.v
                        /\ x < y
         IN <<i>> \o TimeOrder(rows, I \ {i})

\* .sum() of one bucket: the grouped sum of the kwh cells of the rows at the
\* positions I, taken in that order.
SumKwh(rows, I) ==
    LET p == TimeOrder(rows, I)
    IN KahanSum([k \in 1..Len(p) |-> rows[p[k]].kwh.v])

Min(S) == CHOOSE x \in S : \A y \in S : x <= y
Max(S) == CHOOSE x \in S : \A y \in S : x >= y

\* The bucket label of a timestamp under a resampling rule.
Label(rule, t) == IF rule = "D" THEN DayLabel(t) ELSE WeekLabel(t)

\* The distance between two consecutive labels, in days.
Step(rule) == IF rule = "D" THEN 1 ELSE DaysPerWeek

RECURSIVE Ascending(_)
Ascending(S) == IF S = {} THEN <<>> ELSE <<Min(S)>> \o Ascending(S \ {Min(S)})

\* The bug of leaving out the buckets without a reading.
ResampleOmitEmpty(rows, b, rule) ==
    LET mine == {i \in 1..Len(rows) : rows[i].building = b}
        labels == Ascending({Label(rule, rows[i].timestamp.v) : i \in mine})
    IN [k \in 1..Len(labels) |->
          [building |-> b,
           timestamp |-> labels[k],
           kwh |-> SumKwh(rows, {i \in mine :
                             Label(rule, rows[i].timestamp.v) = labels[k]})]]

\* The bug of stopping one bucket short of the last reading.
ResampleDropLast(rows, b, rule) ==
    LET mine == {i \in 1..Len(rows) : rows[i].building = b}
        labels == {Label(rule, rows[i].timestamp.v) : i \in mine}
        lo == Min(labels)
        n == (Max(labels) - lo) \div Step(rule)
    IN [k \in 1..n |->
          [building |-> b,
           timestamp |-> lo + (k - 1) * Step(rule),
           kwh |-> SumKwh(rows, {i \in mine :
                     Label(rule, rows[i].timestamp.v) = lo + (k - 1) * Step(rule)})]]

\* group["kwh"].resample(rule).sum() for one building: one bucket for every
\* period from the one of its first reading to the one of its last, the sum
\* of an empty bucket being 0.
Resample(rows, b, rule) ==
    LET mine == {i \in 1..Len(rows) : rows[i].building = b}
        labels == {Label(rule, rows[i].timestamp.v) : i \in mine}
        lo == Min(labels)
        n == (Max(labels) - lo) \div Step(rule) + 1
    IN [k \in 1..n |->
          [building |-> b,
           timestamp |-> lo + (k - 1) * Step(rule),
           kwh |-> SumKwh(rows, {i \in mine :
                     Label(rule, rows[i].timestamp.v) = lo + (k - 1) * Step(rule)})]]

RECURSIVE GroupResample(_, _, _)
\* df.groupby("building")["kwh"].resample(rule).sum().reset_index()
GroupResample(rows, names, rule) ==
    IF names = <<>> THEN <<>>
    ELSE Resample(rows, Head(names), rule)
         \o GroupResample(rows, Tail(names), rule)

\* Line 63
daily_data(rows) == GroupResample(rows, SortNames(BuildingSet(rows)), "D")

\* Line 67
weekly_data(rows) == GroupResample(rows, SortNames(BuildingSet(rows)), "W")

\* The values of vs in ascending order.
RECURSIVE SortFloats(_)
SortFloats(vs) ==
    IF vs = <<>> THEN <<>>
    ELSE LET i == CHOOSE x \in 1..Len(vs) :
                     \A y \in 1..Len(vs) : FLeq(vs[x], vs[y])
         IN <<vs[i]>>
            \o SortFloats(SubSeq(vs, 1, i - 1) \o SubSeq(vs, i + 1, Len(vs)))

\* The largest and the smallest of the values vs.
FMax(vs) == vs[CHOOSE x \in 1..Len(vs) : \A y \in 1..Len(vs) : FLeq(vs[y], vs[x])]
FMin(vs) == vs[CHOOSE x \in 1..Len(vs) : \A y \in 1..Len(vs) : FLeq(vs[x], vs[y])]

\* The median as a fraction: the middle value, or the float64 sum of the
\* two middle values over 2.
Median(vs) ==
    LET s == SortFloats(vs)
        n == Len(s)
    IN IF n % 2 = 1 THEN [num |-> s[(n + 1) \div 2], den |-> 1]
       ELSE [num |-> FAdd(s[n \div 2], s[n \div 2 + 1]), den |-> 2]

\* One row of building_summary.  The sum is the grouped sum of the kwh cells
\* of the building in the order of the frame; the mean is that sum over the
\* number of cells, kept as a fraction.
SummaryRow(rows, b) ==
    LET vs == SelectSeq(rows, LAMBDA r : r.building = b)
        ks == [i \in 1..Len(vs) |-> vs[i].kwh.v]
    IN [building |-> b,
        sum |-> KahanSum(ks),
        mean |-> [num |-> KahanSum(ks), den |-> Len(ks)],
        max |-> FMax(ks),
        min |-> FMin(ks),
        median |-> Median(ks)]

\* Lines 70-75
building_summary(rows) ==
    LET names == SortNames(BuildingSet(rows))
    IN [k \in 1..Len(names) |-> SummaryRow(rows, names[k])]

-----------------------------------------------------------------------------
(* The domain model: lines 81-111.                                         *)

\* BuildingManager.load_df: one Building per group, its readings replayed
\* in the order of the rows.
load_df(rows) ==
    [b \in BuildingSet(rows) |->
        LET group == SelectSeq(rows, LAMBDA r : r.building = b)
        IN [i \in 1..Len(group) |->
              [timestamp |-> group[i].timestamp.v, kwh |-> group[i].kwh.v]]]

\* The built-in sum adds floats one after the other from the left up to
\* CPython 3.11, and with Neumaier's compensation from CPython 3.12 on.
BuiltinSums == {"plain", "compensated"}

\* sum(values) under one of the two.
BuiltinSum(vs, impl) ==
    IF impl = "plain" THEN NaiveSum(vs) ELSE NeumaierSum(vs)

\* The bug of starting the sum at the second reading.
totalSkipFirst(readings, impl) ==
    BuiltinSum([i \in 1..(Len(readings) - 1) |-> readings[i + 1].kwh], impl)

\* Building.total: sum(r.kwh for r in self.readings)
total(readings, impl) ==
    BuiltinSum([i \in 1..Len(readings) |-> readings[i].kwh], impl)

\* BuildingManager.report
Report(bs, impl) == [b \in DOMAIN bs |-> total(bs[b], impl)]

-----------------------------------------------------------------------------
(* The result writer: lines 149-162.                                       *)

\* summary["sum"].sum(): the column is short, so numpy adds its values one
\* after the other.
SumOfSums(rows) == NaiveSum([k \in 1..Len(rows) |-> rows[k].sum])

\* The bug of sorting in ascending order.
TopRowsAscending(rows) ==
    {rows[i] : i \in {j \in 1..Len(rows) :
                        \A k \in 1..Len(rows) : FLeq(rows[j].sum, rows[k].sum)}}

\* The rows that summary.sort_values("sum", ascending=False) can put first:
\* the sort is not stable, so any row whose sum is the maximum.
TopRows(rows) ==
    {rows[i] : i \in {j \in 1..Len(rows) :
                        \A k \in 1..Len(rows) : FLeq(rows[k].sum, rows[j].sum)}}

\* f"{x:.2f}" for x >= 0: the whole part and the two decimals of x rounded
\* to the nearest hundredth, a tie going to the even hundredth.
Fmt2(x) ==
    LET whole == x.hi \div 2^24
        f1 == Norm(10 * (x.hi % 2^24), 10 * x.lo)
        f2 == Norm(10 * (f1.hi % 2^24), 10 * f1.lo)
        q == 10 * (f1.hi \div 2^24) + (f2.hi \div 2^24)
        rest == [hi |-> f2.hi % 2^24, lo |-> f2.lo]
        half == [hi |-> 2^23, lo |-> 0]
        h == IF FLess(half, rest) THEN q + 1
             ELSE IF rest = half /\ q % 2 = 1 THEN q + 1
             ELSE q
    IN [whole |-> whole + (h \div 100),
        frac |-> <<(h % 100) \div 10, h % 10>>]

CsvOutputs == {"cleaned_data.csv", "daily.csv", "weekly.csv", "summary.csv"}

MsgLoading == "Loading data..."
MsgNoFiles == "No CSV files found!"
MsgReport == "Manager Report:"
MsgDashboard == "Dashboard saved: output/dashboard.png"
MsgSummary == "Text summary saved."
MsgDone == "All tasks completed successfully!"

-----------------------------------------------------------------------------
(* The run of main().                                                      *)

Init ==
    /\ listing \in Listings(MaxFiles)
    /\ content \in [{listing[i] : i \in 1..Len(listing)} -> FileMenu]
    /\ pc = "start"
    /\ files = <<>>
    /\ idx = 1
    /\ all_dfs = <<>>
    /\ final_df = None
    /\ daily = None
    /\ weekly = None
    /\ summary = None
    /\ buildings = <<>>
    /\ report = <<>>
    /\ outputs = {}
    /\ summary_txt = None
    /\ console = <<>>

\* Lines 169-170 and 21-22: main starts, load_all_data lists the folder.
Discover ==
    /\ pc = "start"
    /\ files' = CsvFiles(listing)
    /\ idx' = 1
    /\ all_dfs' = <<>>
    /\ console' = Append(console, MsgLoading)
    /\ pc' = "loop"
    /\ UNCHANGED <<listing, content, final_df, daily, weekly, summary,
                   buildings, report, outputs, summary_txt>>

\* Lines 24-48: one iteration of the loop, for a file whose columns are found.
LoadFile ==
    /\ pc = "loop"
    /\ idx <= Len(files)
    /\ ~MissingColumn(content[files[idx]])
    /\ \E df \in LoadedFrames(files[idx], content[files[idx]]) :
          all_dfs' = Append(all_dfs, df)
    /\ idx' = idx + 1
    /\ UNCHANGED <<listing, content, pc, files, final_df, daily, weekly,
                   summary, buildings, report, outputs, summary_txt, console>>

\* The bug of skipping a file whose columns are not found.
LoadFileSkipped ==
    /\ pc = "loop"
    /\ idx <= Len(files)
    /\ \/ TimeCols(LowerColumns(content[files[idx]].header)) = <<>>
       \/ EnergyCols(LowerColumns(content[files[idx]].header)) = <<>>
    /\ idx' = idx + 1
    /\ UNCHANGED <<listing, content, pc, files, all_dfs, final_df, daily,
                   weekly, summary, buildings, report, outputs, summary_txt,
                   console>>

\* Lines 32-33: [0] on an empty list raises IndexError, which nothing
\* catches: main ends with the exception.
LoadFileMissingColumn ==
    /\ pc = "loop"
    /\ idx <= Len(files)
    /\ MissingColumn(content[files[idx]])
    /\ pc' = "crashed"
    /\ UNCHANGED <<listing, content, files, idx, all_dfs, final_df, daily,
                   weekly, summary, buildings, report, outputs, summary_txt,
                   console>>

\* Lines 50-52 and 172-173: nothing was loaded; load_all_data returns None
\* and main returns.
NoFiles ==
    /\ pc = "loop"
    /\ idx > Len(files)
    /\ Len(all_dfs) = 0
    /\ console' = Append(console, MsgNoFiles)
    /\ final_df' = None
    /\ pc' = "done"
    /\ UNCHANGED <<listing, content, files, idx, all_dfs, daily, weekly,
                   summary, buildings, report, outputs, summary_txt>>

\* Lines 54-56: the frames concatenated in the order they were appended.
Combine ==
    /\ pc = "loop"
    /\ idx > Len(files)
    /\ Len(all_dfs) # 0
    /\ final_df' = Frame(Concat(all_dfs))
    /\ pc' = "aggregate"
    /\ UNCHANGED <<listing, content, files, idx, all_dfs, daily, weekly,
                   summary, buildings, report, outputs, summary_txt, console>>

\* Lines 175-177
Aggregate ==
    /\ pc = "aggregate"
    /\ daily' = Frame(daily_data(final_df.rows))
    /\ weekly' = Frame(weekly_data(final_df.rows))
    /\ summary' = Frame(building_summary(final_df.rows))
    /\ pc' = "manager"
    /\ UNCHANGED <<listing, content, files, idx, all_dfs, final_df, buildings,
                   report, outputs, summary_txt, console>>

\* Lines 175-177 on a Combined Series without rows: whether resample accepts
\* an empty frame depends on the pandas release, so the run may end here.
AggregateEmptyFails ==
    /\ pc = "aggregate"
    /\ final_df.rows = <<>>
    /\ pc' = "crashed"
    /\ UNCHANGED <<listing, content, files, idx, all_dfs, final_df, daily,
                   weekly, summary, buildings, report, outputs, summary_txt,
                   console>>

\* Lines 179-181; which of the two sums the interpreter has is not known.
ManagerReport ==
    /\ pc = "manager"
    /\ buildings' = load_df(final_df.rows)
    /\ \E impl \in BuiltinSums :
          report' = Report(load_df(final_df.rows), impl)
    /\ console' = Append(console, MsgReport)
    /\ pc' = "dashboard"
    /\ UNCHANGED <<listing, content, files, idx, all_dfs, final_df, daily,
                   weekly, summary, outputs, summary_txt>>

\* Lines 117-143 and 183: the chart is saved.  This is the outcome under a
\* pandas release that accepts the alias "H" of line 136.
MakeDashboard ==
    /\ pc = "dashboard"
    /\ outputs' = outputs \cup {"dashboard.png"}
    /\ console' = Append(console, MsgDashboard)
    /\ pc' = "save"
    /\ UNCHANGED <<listing, content, files, idx, all_dfs, final_df, daily,
                   weekly, summary, buildings, report, summary_txt>>

\* Lines 117-136 and 183 under a pandas release without the alias "H"
\* (3.0 and later accept "h" only): resample("H") raises ValueError before
\* savefig, which nothing catches, so main ends with the exception.
MakeDashboardFails ==
    /\ pc = "dashboard"
    /\ pc' = "crashed"
    /\ UNCHANGED <<listing, content, files, idx, all_dfs, final_df, daily,
                   weekly, summary, buildings, report, outputs, summary_txt,
                   console>>

\* Lines 149-162 and 184-186: the four tables, then the text summary.
SaveResults ==
    /\ pc = "save"
    /\ summary.rows # <<>>
    /\ \E top \in TopRows(summary.rows) :
          summary_txt' = [none |-> FALSE,
                          total |-> Fmt2(SumOfSums(summary.rows)),
                          building |-> top.building,
                          sum |-> Fmt2(top.sum)]
    /\ outputs' = outputs \cup CsvOutputs \cup {"summary.txt"}
    /\ console' = console \o <<MsgSummary, MsgDone>>
    /\ pc' = "done"
    /\ UNCHANGED <<listing, content, files, idx, all_dfs, final_df, daily,
                   weekly, summary, buildings, report>>

\* Lines 150-156 on an empty summary: the four tables are written, then
\* .iloc[0] raises IndexError before summary.txt is opened.
SaveResultsEmpty ==
    /\ pc = "save"
    /\ summary.rows = <<>>
    /\ outputs' = outputs \cup CsvOutputs
    /\ pc' = "crashed"
    /\ UNCHANGED <<listing, content, files, idx, all_dfs, final_df, daily,
                   weekly, summary, buildings, report, summary_txt, console>>

Next ==
    \/ Discover
    \/ LoadFile
    \/ LoadFileMissingColumn
    \/ NoFiles
    \/ Combine
    \/ Aggregate
    \/ AggregateEmptyFails
    \/ ManagerReport
    \/ MakeDashboard
    \/ MakeDashboardFails
    \/ SaveResults
    \/ SaveResultsEmpty

Spec == Init /\ [][Next]_vars

-----------------------------------------------------------------------------
(* The properties.                                                         *)

\* The text of the time cell and of the energy cell of raw row r of a file.
TimeText(file, r) == file.rows[r][TimeCols(LowerColumns(file.header))[1]]
EnergyText(file, r) == file.rows[r][EnergyCols(LowerColumns(file.header))[1]]

\* The cell parses: as a date-time, as a number.
ParsesAsTime(text) == text \in {"2024-01-01 00:00", "2024-01-01 12:00",
                                "2024-01-03 06:00", "2024-01-16 00:00"}
ParsesAsNumber(text) == text \in {"5", "7", "10", "15", "20",
                                  "3.2", "6.4", "9.6"}

\* The positions of the raw rows of a file with a good time and energy cell.
GoodRows(file) ==
    {r \in 1..Len(file.rows) :
        ParsesAsTime(TimeText(file, r)) /\ ParsesAsNumber(EnergyText(file, r))}

\* Those of them without a missing value in any other column.
CompleteRows(file) ==
    {r \in GoodRows(file) :
        \A j \in 1..Len(file.header) : file.rows[r][j] \notin NaStrings}

\* The header lacks a time/date column or a kwh/energy column.
LacksColumn(header) ==
    \/ \A j \in 1..Len(header) :
          /\ ~Contains(Lower(header[j]), TokTime)
          /\ ~Contains(Lower(header[j]), TokDate)
    \/ \A j \in 1..Len(header) :
          /\ ~Contains(Lower(header[j]), TokKwh)
          /\ ~Contains(Lower(header[j]), TokEnergy)

\* The sum, as a real number, of the kwh column of a table over the rows of
\* building b.
RECURSIVE TableSum(_, _)
TableSum(table, b) ==
    IF table = <<>> THEN Zero
    ELSE ExactAdd(IF Head(table).building = b THEN Head(table).kwh ELSE Zero,
                  TableSum(Tail(table), b))

\* v is a float64 of the range of this model.
IsDouble(v) ==
    /\ v.hi \in Int
    /\ v.lo \in 0..(Limb - 1)
    /\ RoundToDouble(v) = v

\* v is a whole number of kWh.
IsWhole(v) == v.lo = 0 /\ v.hi % 2^24 = 0

\* a and b differ by no more than 2^-40 kWh, which is far more than the
\* rounding of a sum of a few readings and far less than a reading.
Close(a, b) == FLeq(FAbs(ExactSub(a, b)), [hi |-> 0, lo |-> 2^11])

\* The positions in the Combined Series of the readings of building b.
ReadingsOf(b) == {i \in 1..Len(final_df.rows) : final_df.rows[i].building = b}

\* Every reading of building b is a whole number of kWh.
WholeReadings(b) == \A i \in ReadingsOf(b) : IsWhole(final_df.rows[i].kwh.v)

\* C1: every row of the Combined Series that load_all_data returns, and of
\* every per-file frame it is built from, has a parsed timestamp and a
\* numeric kwh: no row with a missing value in either survives.
C1_LoadedRowsValid ==
    /\ \A i \in 1..Len(all_dfs) : \A k \in 1..Len(all_dfs[i]) :
          /\ ~all_dfs[i][k].timestamp.null
          /\ all_dfs[i][k].timestamp.v \in Nat
          /\ ~all_dfs[i][k].kwh.null
          /\ IsDouble(all_dfs[i][k].kwh.v)
    /\ ~final_df.none =>
          \A k \in 1..Len(final_df.rows) :
             /\ ~final_df.rows[k].timestamp.null
             /\ final_df.rows[k].timestamp.v \in Nat
             /\ ~final_df.rows[k].kwh.null
             /\ IsDouble(final_df.rows[k].kwh.v)

\* A table was returned from a file that had a row with a bad timestamp and
\* a row with a bad energy value, and a row of that file survived.
C1_Witness ==
    /\ ~final_df.none
    /\ final_df.rows # <<>>
    /\ \E i \in 1..Len(files) :
          LET file == content[files[i]]
          IN /\ all_dfs[i] # <<>>
             /\ \E r \in 1..Len(file.rows) : ~ParsesAsTime(TimeText(file, r))
             /\ \E r \in 1..Len(file.rows) : ~ParsesAsNumber(EnergyText(file, r))

\* C2 as claimed: for every building of the Combined Series, the kwh column
\* of daily_data, the kwh column of weekly_data and the sum field of the
\* building's one row of building_summary add up to the same total.
C2_TotalsAgree ==
    ~summary.none =>
        \A b \in BuildingSet(final_df.rows) :
           /\ TableSum(daily.rows, b) = TableSum(weekly.rows, b)
           /\ Cardinality({k \in 1..Len(summary.rows) :
                              summary.rows[k].building = b}) = 1
           /\ \A k \in 1..Len(summary.rows) :
                 summary.rows[k].building = b =>
                    summary.rows[k].sum = TableSum(weekly.rows, b)

\* C2 as amended: for every building of the Combined Series, the kwh column
\* of daily_data, the kwh column of weekly_data and the sum field of the
\* building's one row of building_summary add up to the same total within
\* floating-point rounding, and to exactly the same total when the readings
\* of the building are whole numbers.
C2_TotalsAgreeWithinRounding ==
    ~summary.none =>
        \A b \in BuildingSet(final_df.rows) :
           /\ Close(TableSum(daily.rows, b), TableSum(weekly.rows, b))
           /\ WholeReadings(b) =>
                 TableSum(daily.rows, b) = TableSum(weekly.rows, b)
           /\ Cardinality({k \in 1..Len(summary.rows) :
                              summary.rows[k].building = b}) = 1
           /\ \A k \in 1..Len(summary.rows) :
                 summary.rows[k].building = b =>
                    /\ Close(summary.rows[k].sum, TableSum(weekly.rows, b))
                    /\ Close(summary.rows[k].sum, TableSum(daily.rows, b))
                    /\ WholeReadings(b) =>
                          summary.rows[k].sum = TableSum(weekly.rows, b)

\* The aggregates exist for a building with whole readings in several days
\* and several weeks, and for a building with readings in several days whose
\* daily sums do not add up to exactly the sum field of its summary row.
C2_Witness ==
    /\ ~summary.none
    /\ \E b \in BuildingSet(final_df.rows) :
          /\ WholeReadings(b)
          /\ Cardinality({DayLabel(final_df.rows[i].timestamp.v) : i \in ReadingsOf(b)}) > 1
          /\ Cardinality({WeekLabel(final_df.rows[i].timestamp.v) : i \in ReadingsOf(b)}) > 1
    /\ \E b \in BuildingSet(final_df.rows) :
          /\ Cardinality({DayLabel(final_df.rows[i].timestamp.v) : i \in ReadingsOf(b)}) > 1
          /\ Cardinality(ReadingsOf(b)) > 2
          /\ \E k \in 1..Len(summary.rows) :
                /\ summary.rows[k].building = b
                /\ summary.rows[k].sum # TableSum(daily.rows, b)

\* The rows of a table are the buckets with a reading, once each.
OnlyBucketsWithReadings(table, rule) ==
    /\ \A k \in 1..Len(table) :
          \E i \in ReadingsOf(table[k].building) :
             Label(rule, final_df.rows[i].timestamp.v) = table[k].timestamp
    /\ \A b \in BuildingSet(final_df.rows) : \A i \in ReadingsOf(b) :
          Cardinality({k \in 1..Len(table) :
              /\ table[k].building = b
              /\ table[k].timestamp = Label(rule, final_df.rows[i].timestamp.v)}) = 1

\* C3 as claimed: daily_data and weekly_data hold exactly one row per
\* (building, period) with a reading; a period without one has no row.
C3_EmptyBucketsOmitted ==
    ~daily.none =>
        /\ OnlyBucketsWithReadings(daily.rows, "D")
        /\ OnlyBucketsWithReadings(weekly.rows, "W")

\* The rows of a table are, for every building, the periods from the one of
\* its first reading to the one of its last, once each, with the sum of the
\* readings of the period, which is 0 for a period without a reading.
BucketsSpanFirstToLast(table, rule) ==
    /\ \A k \in 1..Len(table) :
          LET mine == ReadingsOf(table[k].building)
              labels == {Label(rule, final_df.rows[i].timestamp.v) : i \in mine}
          IN /\ mine # {}
             /\ \E lo, hi \in labels :
                   /\ \A l \in labels : lo <= l /\ l <= hi
                   /\ lo <= table[k].timestamp /\ table[k].timestamp <= hi
             /\ table[k].timestamp % Step(rule) = Step(rule) - 1 \/ rule = "D"
             /\ table[k].kwh =
                   SumKwh(final_df.rows,
                          {i \in mine : Label(rule, final_df.rows[i].timestamp.v)
                                           = table[k].timestamp})
    /\ \A b \in BuildingSet(final_df.rows) : \A i, j \in ReadingsOf(b) :
          \A p \in Label(rule, final_df.rows[i].timestamp.v)
                   .. Label(rule, final_df.rows[j].timestamp.v) :
             (p - Label(rule, final_df.rows[i].timestamp.v)) % Step(rule) = 0 =>
                Cardinality({k \in 1..Len(table) :
                    table[k].building = b /\ table[k].timestamp = p}) = 1

\* C3 as amended: one row per building and period between the building's
\* first and last reading, the periods without a reading included with sum 0.
C3_BucketsSpanFirstToLast ==
    ~daily.none =>
        /\ BucketsSpanFirstToLast(daily.rows, "D")
        /\ BucketsSpanFirstToLast(weekly.rows, "W")

\* daily_data and weekly_data each hold a row, with sum 0, for a period in
\* which the building has no reading.
C3_Witness ==
    /\ ~daily.none
    /\ \E k \in 1..Len(daily.rows) :
          /\ daily.rows[k].kwh = Zero
          /\ \A i \in ReadingsOf(daily.rows[k].building) :
                DayLabel(final_df.rows[i].timestamp.v) # daily.rows[k].timestamp
    /\ \E k \in 1..Len(weekly.rows) :
          /\ weekly.rows[k].kwh = Zero
          /\ \A i \in ReadingsOf(weekly.rows[k].building) :
                WeekLabel(final_df.rows[i].timestamp.v) # weekly.rows[k].timestamp

\* A file name without its last four characters, the extension ".csv".
Stem(name) == SubSeq(name, 1, Len(name) - Len(CsvExt))

\* C4: the building of the rows of a file is the name of the file without
\* its extension, and the rows of two files never carry the same building.
C4_BuildingPerFile ==
    /\ \A i \in 1..Len(all_dfs) : \A k \in 1..Len(all_dfs[i]) :
          all_dfs[i][k].building = Stem(files[i])
    /\ \A i, j \in 1..Len(all_dfs) :
          i # j => \A k \in 1..Len(all_dfs[i]) : \A l \in 1..Len(all_dfs[j]) :
                      all_dfs[i][k].building # all_dfs[j][l].building

\* The position before the first row of the i-th frame in the Combined Series.
RECURSIVE Offset(_)
Offset(i) == IF i = 1 THEN 0 ELSE Offset(i - 1) + Len(all_dfs[i - 1])

\* C5 as claimed: the Combined Series is in timestamp order.
C5_CombinedSorted ==
    ~final_df.none =>
        \A k \in 1..(Len(final_df.rows) - 1) :
           final_df.rows[k].timestamp.v <= final_df.rows[k + 1].timestamp.v

\* C5 as amended: the Combined Series is the per-file frames one after the
\* other in listing order, and the rows of one file are in timestamp order.
C5_SortedWithinEachFile ==
    ~final_df.none =>
        /\ Len(final_df.rows) = Offset(Len(all_dfs) + 1)
        /\ \A i \in 1..Len(all_dfs) :
              /\ \A k \in 1..Len(all_dfs[i]) :
                    /\ final_df.rows[Offset(i) + k] = all_dfs[i][k]
                    /\ final_df.rows[Offset(i) + k].building = BuildingName(files[i])
              /\ \A k \in 1..(Len(all_dfs[i]) - 1) :
                    final_df.rows[Offset(i) + k].timestamp.v
                       <= final_df.rows[Offset(i) + k + 1].timestamp.v

\* Two files were combined, the first with its rows out of order in the
\* file, and the Combined Series is not in timestamp order.
C5_Witness ==
    /\ ~final_df.none
    /\ Len(all_dfs) = 2
    /\ Len(all_dfs[1]) = 2
    /\ LET file == content[files[1]]
       IN ToDatetime(Val(TimeText(file, 1))).v > ToDatetime(Val(TimeText(file, 2))).v
    /\ \E k \in 1..(Len(final_df.rows) - 1) :
          final_df.rows[k].timestamp.v > final_df.rows[k + 1].timestamp.v

\* No name in the folder ends with ".csv".
NoCsvInFolder == \A i \in 1..Len(listing) : ~EndsWith(listing[i], CsvExt)

\* C6: with no ".csv" file in the folder, load_all_data prints the message
\* and returns None, and main stops: no aggregate, no report, no output file,
\* no exception.
C6_NoInputHaltsCleanly ==
    NoCsvInFolder =>
        /\ outputs = {}
        /\ final_df.none /\ daily.none /\ weekly.none /\ summary.none
        /\ summary_txt.none
        /\ report = <<>>
        /\ pc \in {"start", "loop", "done"}
        /\ pc = "done" => console = <<MsgLoading, MsgNoFiles>>

\* The run ended in a folder that holds files, none of them a ".csv".
C6_Witness ==
    /\ NoCsvInFolder
    /\ Len(listing) > 0
    /\ pc = "done"
    /\ console[Len(console)] = MsgNoFiles

\* The first row of the summary table with the maximum sum.
FirstMaximum ==
    LET rows == summary.rows
        k == CHOOSE j \in 1..Len(rows) :
                /\ \A l \in 1..Len(rows) : FLeq(rows[l].sum, rows[j].sum)
                /\ \A l \in 1..(j - 1) : FLess(rows[l].sum, rows[j].sum)
    IN rows[k]

\* C7 as claimed: summary.txt names the first row of the summary table
\* among those with the maximum sum, with that sum.
C7_TopIsFirstMaximum ==
    ~summary_txt.none =>
        /\ summary_txt.building = FirstMaximum.building
        /\ summary_txt.sum = Fmt2(FirstMaximum.sum)

\* C7 as amended: summary.txt names a row of the summary table whose sum is
\* the maximum, with that sum.
C7_TopIsAMaximum ==
    ~summary_txt.none =>
        \E k \in 1..Len(summary.rows) :
           /\ summary_txt.building = summary.rows[k].building
           /\ summary_txt.sum = Fmt2(summary.rows[k].sum)
           /\ \A l \in 1..Len(summary.rows) :
                 FLeq(summary.rows[l].sum, summary.rows[k].sum)

\* summary.txt was written for two buildings with the same sum, and names
\* the second of them.
C7_Witness ==
    /\ ~summary_txt.none
    /\ Len(summary.rows) = 2
    /\ summary.rows[1].sum = summary.rows[2].sum
    /\ summary_txt.building = summary.rows[2].building

\* The manager's report was printed.
Reported == \E i \in 1..Len(console) : console[i] = MsgReport

\* C8 as claimed: report() has an entry for exactly the buildings with a
\* summary row, and the entry is the sum field of that row.
C8_ReportMatchesSummary ==
    Reported =>
        /\ DOMAIN report = {summary.rows[k].building : k \in 1..Len(summary.rows)}
        /\ DOMAIN report = BuildingSet(final_df.rows)
        /\ \A k \in 1..Len(summary.rows) :
              report[summary.rows[k].building] = summary.rows[k].sum

\* C8 as amended: report() has an entry for exactly the buildings with a
\* summary row; the entry is the sum field of that row within floating-point
\* rounding, and exactly that sum when the readings of the building are
\* whole numbers.
C8_ReportCloseToSummary ==
    Reported =>
        /\ DOMAIN report = {summary.rows[k].building : k \in 1..Len(summary.rows)}
        /\ DOMAIN report = BuildingSet(final_df.rows)
        /\ \A k \in 1..Len(summary.rows) :
              /\ Close(report[summary.rows[k].building], summary.rows[k].sum)
              /\ WholeReadings(summary.rows[k].building) =>
                    report[summary.rows[k].building] = summary.rows[k].sum

\* The report was printed for two buildings: one with several whole
\* readings, one with readings that are not whole and an entry that is not
\* the sum field of its summary row.
C8_Witness ==
    /\ Reported
    /\ Cardinality(DOMAIN report) = 2
    /\ \E b \in DOMAIN buildings :
          Len(buildings[b]) > 1 /\ WholeReadings(b)
    /\ \E k \in 1..Len(summary.rows) :
          /\ ~WholeReadings(summary.rows[k].building)
          /\ report[summary.rows[k].building] # summary.rows[k].sum

\* C9 as claimed: the rows kept from a file are the rows with a parsable
\* timestamp and a numeric energy value, whatever the other columns hold.
C9_OnlyBadCellsDiscard ==
    \A i \in 1..Len(all_dfs) :
       Len(all_dfs[i]) = Cardinality(GoodRows(content[files[i]]))

\* C9 as amended: the rows kept from a file are the rows with a parsable
\* timestamp, a numeric energy value and no missing value in any other
\* column, each kept once with its timestamp and value.
C9_NullInAnyColumnDiscards ==
    \A i \in 1..Len(all_dfs) :
       LET file == content[files[i]]
           kept == CompleteRows(file)
       IN /\ Len(all_dfs[i]) = Cardinality(kept)
          /\ \E f \in [1..Len(all_dfs[i]) -> kept] :
                /\ \A k, l \in 1..Len(all_dfs[i]) : k # l => f[k] # f[l]
                /\ \A k \in 1..Len(all_dfs[i]) :
                      /\ all_dfs[i][k].timestamp = ToDatetime(Val(TimeText(file, f[k])))
                      /\ all_dfs[i][k].kwh = ToNumeric(Val(EnergyText(file, f[k])))

\* A file was loaded in which a row with a good timestamp and energy value
\* has an empty cell in another column, and the row is not in the frame.
C9_Witness ==
    \E i \in 1..Len(all_dfs) :
       LET file == content[files[i]]
       IN /\ GoodRows(file) # CompleteRows(file)
          /\ Len(all_dfs[i]) < Cardinality(GoodRows(file))
          /\ Len(all_dfs[i]) > 0

\* C10: a discovered file without a time/date column or without a
\* kwh/energy column ends the run with the exception when the loop reaches
\* it: no Combined Series, no aggregate, no output file, wherever the file
\* is in the listing.
C10_MissingColumnAborts ==
    (\E i \in 1..Len(files) : LacksColumn(content[files[i]].header)) =>
        /\ final_df.none /\ daily.none /\ summary.none
        /\ outputs = {}
        /\ pc \in {"loop", "crashed"}
        /\ \A i \in 1..Len(all_dfs) : ~LacksColumn(content[files[i]].header)
        /\ pc = "crashed" => LacksColumn(content[files[idx]].header)

\* The run ended with the exception at the second file, after a well-formed
\* first file was loaded.
C10_Witness ==
    /\ pc = "crashed"
    /\ idx = 2
    /\ Len(all_dfs) = 1
    /\ all_dfs[1] # <<>>
    /\ LacksColumn(content[files[2]].header)

=============================================================================
